---- MODULE Spec2Model ----
(***************************************************************************)
(* Temporal Memory layer of nupic/research/temporal_memory.py.             *)
(*                                                                         *)
(* Permanences are fixed-point numbers in units of 1e-6, so that EPSILON   *)
(* is 1 and 1.0 is PermOne.  Segment handles are 1, 2, ... in creation     *)
(* order.  A Python container whose type matters (tuple, list, set) is a   *)
(* record [type, items].  A Python set that the code iterates is iterated  *)
(* in an order selected by an index k (see iter).                          *)
(***************************************************************************)
EXTENDS Integers, Sequences, FiniteSets, TLC

VARIABLES
  cfg,               \* the constructor's parameters (fixed after __init__)
  activeCells,       \* self.activeCells      (set of cells)
  winnerCells,       \* self.winnerCells      (set of cells)
  activeSegments,    \* self.activeSegments   ([type, items])
  matchingSegments,  \* self.matchingSegments (list of segment handles)
  connections,       \* self.connections      ([cells, synapses])
  random,            \* self._random          (generator state)
  call,              \* the last call made and compute()'s locals
  twin               \* a second layer, same parameters, same calls

vars == <<cfg, activeCells, winnerCells, activeSegments, matchingSegments,
          connections, random, call, twin>>

----------------------------------------------------------------------------
(* Bounds of the model and constants of the program *)

MaxCalls == 5

NumOrders == 2

EPSILON == 1

PermOne == 1000000

MAX_INT == 2147483647

Orders == 0 .. (NumOrders - 1)

----------------------------------------------------------------------------
(* Python helpers *)

Min2(a, b) == IF a <= b THEN a ELSE b

Max2(a, b) == IF a >= b THEN a ELSE b

SetMin(S) == CHOOSE x \in S : \A y \in S : x <= y

RECURSIVE sorted(_)
sorted(S) == IF S = {} THEN <<>>
             ELSE LET m == SetMin(S) IN <<m>> \o sorted(S \ {m})

Range(s) == {s[i] : i \in 1 .. Len(s)}

RemoveAt(s, i) == SubSeq(s, 1, i - 1) \o SubSeq(s, i + 1, Len(s))

RECURSIVE NthPerm(_, _)
NthPerm(s, k) ==
  IF Len(s) <= 1 THEN s
  ELSE LET i == (k % Len(s)) + 1
       IN <<s[i]>> \o NthPerm(RemoveAt(s, i), k \div Len(s))

\* The order in which a Python set S is iterated: any order; k selects one.
iter(S, k) == NthPerm(sorted(S), k)

\* bisect_left on a sorted list, then the membership test of binSearch.
binSearch(arr, val) ==
  LET i == Cardinality({j \in 1 .. Len(arr) : arr[j] < val})
  IN IF i /= Len(arr) /\ arr[i + 1] = val THEN i ELSE -1

\* Random.getUInt32(n): the next state of the generator and a value below n.
getUInt32(r, n) ==
  LET r2 == (5 * r + 3) % 16
  IN [random |-> r2, value |-> (r2 \div 2) % n]

----------------------------------------------------------------------------
(* Connections: cells[seg] is the owner of segment seg, synapses[seg] the  *)
(* segment's synapses in creation order.                                   *)

EmptyConnections == [cells |-> <<>>, synapses |-> <<>>]

cellForSegment(conn, seg) == conn.cells[seg]

columnForSegment(conn, seg, cellsPerColumn) ==
  conn.cells[seg] \div cellsPerColumn

segmentsForCell(conn, cell) ==
  sorted({h \in 1 .. Len(conn.cells) : conn.cells[h] = cell})

synapsesForSegment(conn, seg) == conn.synapses[seg]

\* createSegment: the new connections, or raised when the cell is full.
createSegment(conn, cell) ==
  IF Len(segmentsForCell(conn, cell)) >= cfg.maxSegmentsPerCell
  THEN [raised |-> TRUE, connections |-> conn, segment |-> 0]
  ELSE [raised |-> FALSE,
        connections |-> [cells |-> Append(conn.cells, cell),
                         synapses |-> Append(conn.synapses, <<>>)],
        segment |-> Len(conn.cells) + 1]

createSynapse(conn, seg, presynapticCell, permanence) ==
  IF Len(conn.synapses[seg]) >= cfg.maxSynapsesPerSegment
  THEN [raised |-> TRUE, connections |-> conn]
  ELSE [raised |-> FALSE,
        connections |->
          [conn EXCEPT !.synapses[seg] =
             Append(@, [presynapticCell |-> presynapticCell,
                        permanence |-> permanence])]]

\* updateSynapsePermanence clamps to [0, 1] before storing.
updateSynapsePermanence(syn, permanence) ==
  [syn EXCEPT !.permanence = Max2(0, Min2(PermOne, permanence))]

SegmentKeyLess(conn, a, b) ==
  \/ conn.cells[a] < conn.cells[b]
  \/ conn.cells[a] = conn.cells[b] /\ a < b

RECURSIVE sortedSegments(_, _)
sortedSegments(conn, S) ==
  IF S = {} THEN <<>>
  ELSE LET m == CHOOSE a \in S : \A b \in S \ {a} : SegmentKeyLess(conn, a, b)
       IN <<m>> \o sortedSegments(conn, S \ {m})

computeActivity(conn, cells, connectedPermanence, activationThreshold, learningPermanence, minThreshold) ==
  LET syns(seg) == conn.synapses[seg]
      connectedActive(seg) ==
        Cardinality({i \in 1 .. Len(syns(seg)) :
                       /\ syns(seg)[i].presynapticCell \in cells
                       /\ syns(seg)[i].permanence >= connectedPermanence})
      totalActive(seg) ==
        Cardinality({i \in 1 .. Len(syns(seg)) :
                       /\ syns(seg)[i].presynapticCell \in cells
                       /\ syns(seg)[i].permanence > learningPermanence})
      all == 1 .. Len(conn.cells)
  IN [activeSegments |->
        sortedSegments(conn, {s \in all : connectedActive(s) >= activationThreshold}),
      matchingSegments |->
        sortedSegments(conn, {s \in all : totalActive(s) >= minThreshold})]

----------------------------------------------------------------------------
(* excitedColumnsGenerator: the records it yields, in order.  Indices are  *)
(* 0-based as in the code; list[i] of the code is list[i + 1] here.        *)

\* A faulty variant: the run ends after one segment of the column.
runEndAfterOne(segments, i, col, cellsPerColumn, conn) ==
  IF i < Len(segments)
     /\ columnForSegment(conn, segments[i + 1], cellsPerColumn) = col
  THEN i + 1
  ELSE i

\* The inner for loops: the end of the run of segments of column col.
RECURSIVE runEnd(_, _, _, _, _)
runEnd(segments, i, col, cellsPerColumn, conn) ==
  IF i < Len(segments)
     /\ columnForSegment(conn, segments[i + 1], cellsPerColumn) = col
  THEN runEnd(segments, i + 1, col, cellsPerColumn, conn)
  ELSE i

RECURSIVE excitedColumnsFrom(_, _, _, _, _, _, _, _)
excitedColumnsFrom(activeColumnsList, activeSegs, matchingSegs, cellsPerColumn, conn, activeColumnsProcessed, activeSegmentsProcessed, matchingSegmentsProcessed) ==
  IF ~ \/ activeColumnsProcessed < Len(activeColumnsList)
       \/ activeSegmentsProcessed < Len(activeSegs)
       \/ matchingSegmentsProcessed < Len(matchingSegs)
  THEN <<>>
  ELSE
    LET c1 == IF activeSegmentsProcessed < Len(activeSegs)
              THEN Min2(MAX_INT,
                        columnForSegment(conn,
                          activeSegs[activeSegmentsProcessed + 1], cellsPerColumn))
              ELSE MAX_INT
        c2 == IF matchingSegmentsProcessed < Len(matchingSegs)
              THEN Min2(c1,
                        columnForSegment(conn,
                          matchingSegs[matchingSegmentsProcessed + 1], cellsPerColumn))
              ELSE c1
        isActiveColumn ==
          /\ activeColumnsProcessed < Len(activeColumnsList)
          /\ activeColumnsList[activeColumnsProcessed + 1] <= c2
        currentColumn ==
          IF isActiveColumn THEN activeColumnsList[activeColumnsProcessed + 1] ELSE c2
        columnsNext ==
          IF isActiveColumn THEN activeColumnsProcessed + 1 ELSE activeColumnsProcessed
        activeSegmentsEnd ==
          runEnd(activeSegs, activeSegmentsProcessed, currentColumn, cellsPerColumn, conn)
        matchingSegmentsEnd ==
          runEnd(matchingSegs, matchingSegmentsProcessed, currentColumn,
                 cellsPerColumn, conn)
    IN <<[column |-> currentColumn,
          isActiveColumn |-> isActiveColumn,
          activeSegmentsBegin |-> activeSegmentsProcessed,
          activeSegmentsEnd |-> activeSegmentsEnd,
          matchingSegmentsBegin |-> matchingSegmentsProcessed,
          matchingSegmentsEnd |-> matchingSegmentsEnd]>>
       \o excitedColumnsFrom(activeColumnsList, activeSegs, matchingSegs,
                             cellsPerColumn, conn, columnsNext, activeSegmentsEnd,
                             matchingSegmentsEnd)

\* A faulty variant: the walk starts after the first active column.
excitedColumnsGeneratorSkipping(activeColumnsList, activeSegs, matchingSegs, cellsPerColumn, conn) ==
  excitedColumnsFrom(activeColumnsList, activeSegs, matchingSegs, cellsPerColumn,
                     conn, 1, 0, 0)

excitedColumnsGenerator(activeColumnsList, activeSegs, matchingSegs, cellsPerColumn, conn) ==
  excitedColumnsFrom(activeColumnsList, activeSegs, matchingSegs, cellsPerColumn,
                     conn, 0, 0, 0)

----------------------------------------------------------------------------
(* TemporalMemory helpers.  A layer tm is the record                       *)
(* [activeCells, winnerCells, activeSegments, matchingSegments,            *)
(*  connections, random, raised, error]; raised is set when a call raises  *)
(* and error then names what raised: "capacity" for createSegment and      *)
(* createSynapse at their limits, else the Python exception.               *)

numberOfColumns ==
  LET dims == cfg.columnDimensions.items
      mul[i \in 0 .. Len(dims)] == IF i = 0 THEN 1 ELSE mul[i - 1] * dims[i]
  IN mul[Len(dims)]

numberOfCells == numberOfColumns * cfg.cellsPerColumn

\* A faulty variant: the column's range starts one cell too far.
cellsForColumnShifted(column) ==
  LET start == cfg.cellsPerColumn * column + 1
  IN start .. Min2(start + cfg.cellsPerColumn - 1, numberOfCells - 1)

\* A faulty variant: the column's range ends one cell too early.
cellsForColumnShort(column) ==
  LET start == cfg.cellsPerColumn * column
  IN start .. (start + cfg.cellsPerColumn - 2)

cellsForColumn(column) ==
  LET start == cfg.cellsPerColumn * column
  IN start .. (start + cfg.cellsPerColumn - 1)

\* A faulty variant: a synapse that ends below EPSILON is stored, not destroyed.
adaptSynapseStoring(syn, prevActiveCells, permanenceIncrement, permanenceDecrement) ==
  LET p1 == IF binSearch(prevActiveCells, syn.presynapticCell) /= -1
            THEN syn.permanence + permanenceIncrement
            ELSE syn.permanence - permanenceDecrement
      p2 == Max2(0, Min2(PermOne, p1))
  IN [syn |-> updateSynapsePermanence(syn, p2), destroyed |-> FALSE]

\* One synapse of the snapshot: the permanence it gets, and whether it is
\* destroyed.
adaptSynapse(syn, prevActiveCells, permanenceIncrement, permanenceDecrement) ==
  LET p1 == IF binSearch(prevActiveCells, syn.presynapticCell) /= -1
            THEN syn.permanence + permanenceIncrement
            ELSE syn.permanence - permanenceDecrement
      p2 == Max2(0, Min2(PermOne, p1))
  IN IF p2 < EPSILON
     THEN [syn |-> syn, destroyed |-> TRUE]
     ELSE [syn |-> updateSynapsePermanence(syn, p2), destroyed |-> FALSE]

\* The snapshot adaptSegment iterates over: the synapses of the segment at
\* the start of the call, none destroyed yet.
RECURSIVE snapshot(_)
snapshot(syns) ==
  IF syns = <<>> THEN <<>>
  ELSE <<[syn |-> Head(syns), destroyed |-> FALSE]>> \o snapshot(Tail(syns))

\* The synapses of the segment once the loop is over, in their order.
RECURSIVE survivors(_)
survivors(work) ==
  IF work = <<>> THEN <<>>
  ELSE (IF Head(work).destroyed THEN <<>> ELSE <<Head(work).syn>>)
         \o survivors(Tail(work))

\* The loop of adaptSegment over the snapshot, order[j] being the position
\* (in the segment at the start of the call) of the j-th synapse visited.
RECURSIVE adaptLoop(_, _, _, _, _, _)
adaptLoop(work, order, j, prevActiveCells, permanenceIncrement, permanenceDecrement) ==
  IF j > Len(order) THEN work
  ELSE adaptLoop([work EXCEPT ![order[j]] =
                    adaptSynapse(work[order[j]].syn, prevActiveCells,
                                 permanenceIncrement, permanenceDecrement)],
                 order, j + 1, prevActiveCells, permanenceIncrement,
                 permanenceDecrement)

adaptSegment(tm, prevActiveCells, permanenceIncrement, permanenceDecrement, segment, k) ==
  LET syns == synapsesForSegment(tm.connections, segment)
      order == iter(1 .. Len(syns), k)
      work == adaptLoop(snapshot(syns), order, 1, prevActiveCells,
                        permanenceIncrement, permanenceDecrement)
  IN [tm EXCEPT !.connections.synapses[segment] = survivors(work)]

\* A faulty variant: the drawn candidate is not replaced by the last one.
RECURSIVE growLoopNoSwap(_, _, _, _, _)
growLoopNoSwap(tm, segment, candidates, candidatesLength, n) ==
  IF n = 0 THEN tm
  ELSE IF candidatesLength < 1 \/ candidatesLength > Len(candidates)
  THEN [tm EXCEPT !.raised = TRUE, !.error = "IndexError"]
  ELSE
    LET draw == getUInt32(tm.random, candidatesLength)
        made == createSynapse(tm.connections, segment,
                              candidates[draw.value + 1], cfg.initialPermanence)
    IN IF made.raised
       THEN [tm EXCEPT !.random = draw.random, !.raised = TRUE,
                       !.error = "capacity"]
       ELSE growLoopNoSwap([tm EXCEPT !.random = draw.random,
                                      !.connections = made.connections],
                           segment, candidates, candidatesLength - 1, n - 1)

RECURSIVE growLoop(_, _, _, _, _)
growLoop(tm, segment, candidates, candidatesLength, n) ==
  IF n = 0 THEN tm
  ELSE IF candidatesLength < 1 \/ candidatesLength > Len(candidates)
  THEN [tm EXCEPT !.raised = TRUE, !.error = "IndexError"]
  ELSE
    LET draw == getUInt32(tm.random, candidatesLength)
        made == createSynapse(tm.connections, segment,
                              candidates[draw.value + 1], cfg.initialPermanence)
    IN IF made.raised
       THEN [tm EXCEPT !.random = draw.random, !.raised = TRUE,
                       !.error = "capacity"]
       ELSE growLoop([tm EXCEPT !.random = draw.random,
                                !.connections = made.connections],
                     segment,
                     [candidates EXCEPT ![draw.value + 1] =
                        candidates[candidatesLength]],
                     candidatesLength - 1, n - 1)

\* A faulty variant: the cells already presynaptic to the segment stay candidates.
growSynapsesAnyWinner(tm, nDesiredNewSynapes, prevWinnerCells, segment) ==
  LET candidates == sorted(Range(prevWinnerCells))
      nActual == Min2(nDesiredNewSynapes, Len(candidates))
  IN growLoop(tm, segment, candidates, Len(candidates), nActual)

growSynapses(tm, nDesiredNewSynapes, prevWinnerCells, segment) ==
  LET syns == synapsesForSegment(tm.connections, segment)
      candidates == sorted(Range(prevWinnerCells)
                           \ {syns[i].presynapticCell : i \in 1 .. Len(syns)})
      nActual == Min2(nDesiredNewSynapes, Len(candidates))
  IN growLoop(tm, segment, candidates, Len(candidates), nActual)

\* A faulty variant: the tie set is kept when a smaller count is found.
RECURSIVE leastUsedLoopKeeping(_, _, _, _)
leastUsedLoopKeeping(conn, cellList, j, acc) ==
  IF j > Len(cellList) THEN acc
  ELSE
    LET cell == cellList[j]
        numSegments == Len(segmentsForCell(conn, cell))
        acc1 == IF acc.min = -1 \/ numSegments < acc.min
                THEN [min |-> numSegments, ties |-> acc.ties]
                ELSE acc
        acc2 == IF numSegments = acc1.min
                THEN [acc1 EXCEPT !.ties = @ \cup {cell}]
                ELSE acc1
    IN leastUsedLoopKeeping(conn, cellList, j + 1, acc2)

\* The scan of leastUsedCell: acc = [min, ties]; min = -1 stands for inf.
RECURSIVE leastUsedLoop(_, _, _, _)
leastUsedLoop(conn, cellList, j, acc) ==
  IF j > Len(cellList) THEN acc
  ELSE
    LET cell == cellList[j]
        numSegments == Len(segmentsForCell(conn, cell))
        acc1 == IF acc.min = -1 \/ numSegments < acc.min
                THEN [min |-> numSegments, ties |-> {}]
                ELSE acc
        acc2 == IF numSegments = acc1.min
                THEN [acc1 EXCEPT !.ties = @ \cup {cell}]
                ELSE acc1
    IN leastUsedLoop(conn, cellList, j + 1, acc2)

\* The draw that ends leastUsedCell: an index into the sorted tie set;
\* raised when there is no cell to index (cell -1 stands for no result).
drawLeastUsed(r, leastUsedCells) ==
  IF leastUsedCells = {}
  THEN [random |-> r, cell |-> -1, raised |-> TRUE]
  ELSE LET draw == getUInt32(r, Cardinality(leastUsedCells))
       IN [random |-> draw.random, cell |-> sorted(leastUsedCells)[draw.value + 1],
           raised |-> FALSE]

\* A faulty variant: the tie set is indexed in its iteration order, not sorted.
leastUsedCellUnsorted(tm, cells, k) ==
  LET acc == leastUsedLoop(tm.connections, iter(cells, k), 1,
                           [min |-> -1, ties |-> {}])
      draw == getUInt32(tm.random, Cardinality(acc.ties))
  IN [random |-> draw.random, cell |-> iter(acc.ties, k)[draw.value + 1],
      raised |-> FALSE]

leastUsedCell(tm, cells, k) ==
  drawLeastUsed(tm.random,
                leastUsedLoop(tm.connections, iter(cells, k), 1,
                              [min |-> -1, ties |-> {}]).ties)

numActiveSynapses(conn, seg, prevActiveCells) ==
  LET syns == synapsesForSegment(conn, seg)
  IN Cardinality({j \in 1 .. Len(syns) :
                    binSearch(prevActiveCells, syns[j].presynapticCell) /= -1})

\* A faulty variant: among the segments of largest overlap the earliest wins.
RECURSIVE bestMatchingLoopEarliest(_, _, _, _, _)
bestMatchingLoopEarliest(tm, i, end, prevActiveCells, acc) ==
  IF i >= end THEN acc
  ELSE
    LET seg == tm.matchingSegments[i + 1]
        n == numActiveSynapses(tm.connections, seg, prevActiveCells)
    IN bestMatchingLoopEarliest(tm, i + 1, end, prevActiveCells,
         IF n > acc.maxSynapses \/ acc.bestSegment = 0
         THEN [maxSynapses |-> n, bestSegment |-> seg, bestNumActiveSynapses |-> n]
         ELSE acc)

\* The loop of bestMatchingSegment; bestSegment 0 stands for None.
RECURSIVE bestMatchingLoop(_, _, _, _, _)
bestMatchingLoop(tm, i, end, prevActiveCells, acc) ==
  IF i >= end THEN acc
  ELSE
    LET seg == tm.matchingSegments[i + 1]
        n == numActiveSynapses(tm.connections, seg, prevActiveCells)
    IN bestMatchingLoop(tm, i + 1, end, prevActiveCells,
         IF n >= acc.maxSynapses
         THEN [maxSynapses |-> n, bestSegment |-> seg, bestNumActiveSynapses |-> n]
         ELSE acc)

\* A faulty variant: a segment without active synapse is never the best.
bestMatchingSegmentWithOverlap(tm, excitedColumn, prevActiveCells) ==
  bestMatchingLoop(tm, excitedColumn.matchingSegmentsBegin,
                   excitedColumn.matchingSegmentsEnd, prevActiveCells,
                   [maxSynapses |-> 1, bestSegment |-> 0,
                    bestNumActiveSynapses |-> 0])

bestMatchingSegment(tm, excitedColumn, prevActiveCells) ==
  bestMatchingLoop(tm, excitedColumn.matchingSegmentsBegin,
                   excitedColumn.matchingSegmentsEnd, prevActiveCells,
                   [maxSynapses |-> 0, bestSegment |-> 0,
                    bestNumActiveSynapses |-> 0])

----------------------------------------------------------------------------
(* TemporalMemory main functions *)

\* The while loop of activatePredictedColumn; acc = [tm, cellsToAdd, cell],
\* cell -1 standing for None.
RECURSIVE activatePredictedLoop(_, _, _, _, _, _)
activatePredictedLoop(acc, segIndex, endIndex, learn, prevActiveCells, k) ==
  IF ~ (segIndex < endIndex) THEN acc
  ELSE
    LET active == acc.tm.activeSegments.items[segIndex + 1]
        owner == cellForSegment(acc.tm.connections, active)
        newCell == ~ (acc.cell = owner)
        tm1 == IF learn
               THEN adaptSegment(acc.tm, prevActiveCells, cfg.permanenceIncrement,
                                 cfg.permanenceDecrement, active, k)
               ELSE acc.tm
    IN activatePredictedLoop(
         [tm |-> tm1,
          cellsToAdd |-> IF newCell THEN Append(acc.cellsToAdd, owner)
                         ELSE acc.cellsToAdd,
          cell |-> IF newCell THEN owner ELSE acc.cell],
         segIndex + 1, endIndex, learn, prevActiveCells, k)

\* A faulty variant: the walk over the column's active segments starts one too far.
activatePredictedColumnSkipping(tm, excitedColumn, learn, prevActiveCells, k) ==
  activatePredictedLoop([tm |-> tm, cellsToAdd |-> <<>>, cell |-> -1],
                        excitedColumn.activeSegmentsBegin + 1,
                        excitedColumn.activeSegmentsEnd, learn, prevActiveCells, k)

activatePredictedColumn(tm, excitedColumn, learn, prevActiveCells, k) ==
  activatePredictedLoop([tm |-> tm, cellsToAdd |-> <<>>, cell |-> -1],
                        excitedColumn.activeSegmentsBegin,
                        excitedColumn.activeSegmentsEnd, learn, prevActiveCells, k)

\* The learning of a bursting column with a matching segment, once
\* adaptSegment is done: growSynapses when nGrowDesired is positive.
burstGrow(tm, nGrowDesired, prevWinnerCells, bestSegment) ==
  IF nGrowDesired > 0
  THEN growSynapses(tm, nGrowDesired, prevWinnerCells, bestSegment)
  ELSE tm

\* burstColumn when the column has a matching segment; best is what
\* bestMatchingSegment returned.
\* cellForSegment(None) raises.
burstMatching(tm, best, cells, learn, prevActiveCells, prevWinnerCells, k) ==
  IF best.bestSegment = 0
  THEN [tm |-> [tm EXCEPT !.raised = TRUE, !.error = "TypeError"],
        cells |-> cells, bestCell |-> -1]
  ELSE
  [tm |-> IF learn
          THEN burstGrow(adaptSegment(tm, prevActiveCells, cfg.permanenceIncrement,
                                      cfg.permanenceDecrement, best.bestSegment, k),
                         cfg.maxNewSynapseCount - best.bestNumActiveSynapses,
                         prevWinnerCells, best.bestSegment)
          ELSE tm,
   cells |-> cells,
   bestCell |-> cellForSegment(tm.connections, best.bestSegment)]

\* The learning of a bursting column without matching segment, once
\* createSegment is done: made is what it returned or that it raised.
burstCreate(tm, made, nGrowExact, prevWinnerCells) ==
  IF made.raised
  THEN [tm EXCEPT !.raised = TRUE, !.error = "capacity"]
  ELSE growSynapses([tm EXCEPT !.connections = made.connections],
                    nGrowExact, prevWinnerCells, made.segment)

\* A faulty variant: the bursting column gets a segment on its least used
\* cell whenever the layer learns, previous winner cells or not.
burstLeastUsedAlways(tm, least, cells, learn, prevWinnerCells) ==
  LET nGrowExact == Min2(cfg.maxNewSynapseCount, Len(prevWinnerCells))
  IN [tm |-> IF least.raised
             THEN [tm EXCEPT !.raised = TRUE, !.error = "IndexError"]
             ELSE IF learn
             THEN burstCreate([tm EXCEPT !.random = least.random],
                              createSegment(tm.connections, least.cell),
                              nGrowExact, prevWinnerCells)
             ELSE [tm EXCEPT !.random = least.random],
      cells |-> cells,
      bestCell |-> least.cell]

\* burstColumn when the column has no matching segment; least is what
\* leastUsedCell returned, the generator's new state included.
burstLeastUsed(tm, least, cells, learn, prevWinnerCells) ==
  LET nGrowExact == Min2(cfg.maxNewSynapseCount, Len(prevWinnerCells))
  IN [tm |-> IF least.raised
             THEN [tm EXCEPT !.raised = TRUE, !.error = "IndexError"]
             ELSE IF learn /\ nGrowExact > 0
             THEN burstCreate([tm EXCEPT !.random = least.random],
                              createSegment(tm.connections, least.cell),
                              nGrowExact, prevWinnerCells)
             ELSE [tm EXCEPT !.random = least.random],
      cells |-> cells,
      bestCell |-> least.cell]

\* burstColumn returns [tm, cells, bestCell]; when tm.raised the call raised
\* and returned nothing.
burstColumn(tm, excitedColumn, learn, prevActiveCells, prevWinnerCells, k) ==
  IF excitedColumn.matchingSegmentsBegin /= excitedColumn.matchingSegmentsEnd
  THEN burstMatching(tm, bestMatchingSegment(tm, excitedColumn, prevActiveCells),
                     cellsForColumn(excitedColumn.column), learn,
                     prevActiveCells, prevWinnerCells, k)
  ELSE burstLeastUsed(tm,
                      leastUsedCell(tm, cellsForColumn(excitedColumn.column), k),
                      cellsForColumn(excitedColumn.column), learn,
                      prevWinnerCells)

RECURSIVE punishLoop(_, _, _, _, _)
punishLoop(tm, matchingIndex, end, prevActiveCells, k) ==
  IF matchingIndex >= end THEN tm
  ELSE punishLoop(adaptSegment(tm, prevActiveCells, - cfg.predictedSegmentDecrement,
                               0, tm.matchingSegments[matchingIndex + 1], k),
                  matchingIndex + 1, end, prevActiveCells, k)

punishPredictedColumn(tm, excitedColumn, prevActiveCells, k) ==
  IF cfg.predictedSegmentDecrement > 0
  THEN punishLoop(tm, excitedColumn.matchingSegmentsBegin,
                  excitedColumn.matchingSegmentsEnd, prevActiveCells, k)
  ELSE tm

\* A faulty variant: the cells of a predicted column are not made winners.
updatePredictedActiveOnly(r) ==
  [r.tm EXCEPT !.activeCells = @ \cup Range(r.cellsToAdd)]

\* compute's updates of activeCells and winnerCells after
\* activatePredictedColumn returned r = [tm, cellsToAdd, cell].
updatePredicted(r) ==
  [r.tm EXCEPT !.activeCells = @ \cup Range(r.cellsToAdd),
               !.winnerCells = @ \cup Range(r.cellsToAdd)]

\* compute's updates after burstColumn returned r = [tm, cells, bestCell],
\* none when it raised.
updateBurst(r) ==
  IF r.tm.raised THEN r.tm
  ELSE [r.tm EXCEPT !.activeCells = @ \cup r.cells,
                    !.winnerCells = @ \cup {r.bestCell}]

\* A faulty variant: the columns that are not active are punished whether
\* learn is set or not.
computeColumnPunishing(tm, excitedColumn, learn, prevActiveCells, prevWinnerCells, k) ==
  IF excitedColumn.isActiveColumn
  THEN
    IF excitedColumn.activeSegmentsBegin /= excitedColumn.activeSegmentsEnd
    THEN updatePredicted(activatePredictedColumn(tm, excitedColumn, learn,
                                                 prevActiveCells, k))
    ELSE updateBurst(burstColumn(tm, excitedColumn, learn, prevActiveCells,
                                 prevWinnerCells, k))
  ELSE punishPredictedColumn(tm, excitedColumn, prevActiveCells, k)

\* The body of compute's for loop, for one record of the generator.
computeColumn(tm, excitedColumn, learn, prevActiveCells, prevWinnerCells, k) ==
  IF excitedColumn.isActiveColumn
  THEN
    IF excitedColumn.activeSegmentsBegin /= excitedColumn.activeSegmentsEnd
    THEN updatePredicted(activatePredictedColumn(tm, excitedColumn, learn,
                                                 prevActiveCells, k))
    ELSE updateBurst(burstColumn(tm, excitedColumn, learn, prevActiveCells,
                                 prevWinnerCells, k))
  ELSE
    IF learn THEN punishPredictedColumn(tm, excitedColumn, prevActiveCells, k)
    ELSE tm

RECURSIVE computeLoop(_, _, _, _, _, _, _)
computeLoop(tm, excitedColumns, i, learn, prevActiveCells, prevWinnerCells, k) ==
  IF i > Len(excitedColumns) \/ tm.raised THEN tm
  ELSE computeLoop(computeColumn(tm, excitedColumns[i], learn, prevActiveCells,
                                 prevWinnerCells, k),
                   excitedColumns, i + 1, learn, prevActiveCells,
                   prevWinnerCells, k)

\* A faulty variant: the new segments are appended to the lists of the previous step.
storeActivityExtended(tm) ==
  LET activity == computeActivity(tm.connections, tm.activeCells,
                                  cfg.connectedPermanence, cfg.activationThreshold,
                                  0, cfg.minThreshold)
  IN [tm EXCEPT !.activeSegments =
                  [type |-> "list", items |-> @.items \o activity.activeSegments],
                !.matchingSegments = @ \o activity.matchingSegments]

\* The end of compute: computeActivity on the new activeCells, stored.
storeActivity(tm) ==
  LET activity == computeActivity(tm.connections, tm.activeCells,
                                  cfg.connectedPermanence, cfg.activationThreshold,
                                  0, cfg.minThreshold)
  IN [tm EXCEPT !.activeSegments =
                  [type |-> "list", items |-> activity.activeSegments],
                !.matchingSegments = activity.matchingSegments]

\* The end of compute, not reached when the loop raised.
storeUnlessRaised(tm) == IF tm.raised THEN tm ELSE storeActivity(tm)

\* compute(activeColumns, learn) on the layer tm, sets iterated in order k.
compute(tm, activeColumns, learn, k) ==
  storeUnlessRaised(
    computeLoop([tm EXCEPT !.activeCells = {}, !.winnerCells = {},
                           !.raised = FALSE, !.error = ""],
                excitedColumnsGenerator(sorted(activeColumns),
                                        tm.activeSegments.items,
                                        tm.matchingSegments, cfg.cellsPerColumn,
                                        tm.connections),
                1, learn, sorted(tm.activeCells), sorted(tm.winnerCells), k))

\* A faulty variant: reset() that forgets the winner cells.
resetKeepingWinners(tm) ==
  [tm EXCEPT !.activeCells = {},
             !.activeSegments = [type |-> "set", items |-> <<>>],
             !.raised = FALSE, !.error = ""]

reset(tm) ==
  [tm EXCEPT !.activeCells = {},
             !.activeSegments = [type |-> "set", items |-> <<>>],
             !.winnerCells = {},
             !.raised = FALSE, !.error = ""]

----------------------------------------------------------------------------
(* The layer as a state machine *)

Layer ==
  [activeCells |-> activeCells, winnerCells |-> winnerCells,
   activeSegments |-> activeSegments, matchingSegments |-> matchingSegments,
   connections |-> connections, random |-> random, raised |-> call.raised,
   error |-> call.error]

Configurations ==
  [columnDimensions : {[type |-> "tuple", items |-> <<2>>]},
   cellsPerColumn : {2},
   activationThreshold : {2},
   initialPermanence : {500000},
   connectedPermanence : {750000},
   minThreshold : {1},
   maxNewSynapseCount : {2},
   permanenceIncrement : {250000},
   permanenceDecrement : {250000},
   predictedSegmentDecrement : {250000},
   maxSegmentsPerCell : {1},
   maxSynapsesPerSegment : {2},
   seed : {0, 1}]

\* __init__
InitWith(configs) ==
  /\ cfg \in configs
  /\ activeCells = {}
  /\ winnerCells = {}
  /\ activeSegments = [type |-> "list", items |-> <<>>]
  /\ matchingSegments = <<>>
  /\ connections = EmptyConnections
  /\ random = cfg.seed
  /\ call = [op |-> "init", raised |-> FALSE, error |-> "", count |-> 0,
             activeColumns |-> {},
             learn |-> FALSE, prevActiveCells |-> <<>>, prevWinnerCells |-> <<>>,
             excitedColumns |-> <<>>]
  /\ twin = Layer

Init == InitWith(Configurations)

Install(tm) ==
  /\ activeCells' = tm.activeCells
  /\ winnerCells' = tm.winnerCells
  /\ activeSegments' = tm.activeSegments
  /\ matchingSegments' = tm.matchingSegments
  /\ connections' = tm.connections
  /\ random' = tm.random

\* The layer and the record of the call once compute() is over.
Computes(tm, activeColumns, learn) ==
  /\ Install(tm)
  /\ call' = [op |-> "compute", raised |-> tm.raised, error |-> tm.error,
              count |-> call.count + 1,
              activeColumns |-> activeColumns, learn |-> learn,
              prevActiveCells |-> sorted(activeCells),
              prevWinnerCells |-> sorted(winnerCells),
              excitedColumns |->
                excitedColumnsGenerator(sorted(activeColumns),
                  activeSegments.items, matchingSegments,
                  cfg.cellsPerColumn, connections)]

Compute ==
  \E activeColumns \in SUBSET (0 .. (numberOfColumns - 1)), learn \in BOOLEAN, k \in Orders :
    /\ call.count < MaxCalls
    /\ Computes(compute(Layer, activeColumns, learn, k), activeColumns, learn)
    /\ twin' = compute(twin, activeColumns, learn, (k + 1) % NumOrders)
    /\ UNCHANGED cfg

Reset ==
  /\ call.count < MaxCalls
  /\ Install(reset(Layer))
  /\ call' = [op |-> "reset", raised |-> FALSE, error |-> "",
              count |-> call.count + 1,
              activeColumns |-> {}, learn |-> FALSE,
              prevActiveCells |-> <<>>, prevWinnerCells |-> <<>>,
              excitedColumns |-> <<>>]
  /\ twin' = reset(twin)
  /\ UNCHANGED cfg

Next == Compute \/ Reset

Spec == Init /\ [][Next]_vars

----------------------------------------------------------------------------
(* Vocabulary of the claims *)

\* The last call was a compute() that returned.
Computed == call.op = "compute" /\ ~ call.raised

columnOf(cell) == cell \div cfg.cellsPerColumn

\* The records of the last compute()'s walk, by policy.
PredictedRecords ==
  {i \in 1 .. Len(call.excitedColumns) :
     /\ call.excitedColumns[i].isActiveColumn
     /\ call.excitedColumns[i].activeSegmentsBegin
          /= call.excitedColumns[i].activeSegmentsEnd}

BurstRecords ==
  {i \in 1 .. Len(call.excitedColumns) :
     /\ call.excitedColumns[i].isActiveColumn
     /\ call.excitedColumns[i].activeSegmentsBegin
          = call.excitedColumns[i].activeSegmentsEnd}

BurstMatchingRecords ==
  {i \in BurstRecords :
     call.excitedColumns[i].matchingSegmentsBegin
       /= call.excitedColumns[i].matchingSegmentsEnd}

BurstNoMatchRecords == BurstRecords \ BurstMatchingRecords

PunishRecords ==
  {i \in 1 .. Len(call.excitedColumns) : ~ call.excitedColumns[i].isActiveColumn}

----------------------------------------------------------------------------
\* C1: after every compute(), winnerCells is a subset of activeCells and the
\* column of every winner cell is one of that step's activeColumns.
C1_WinnersActiveInActiveColumns ==
  Computed =>
    /\ winnerCells \subseteq activeCells
    /\ \A w \in winnerCells : columnOf(w) \in call.activeColumns

\* A compute() that activated a predicted column and burst another one.
C1_Witness ==
  /\ Computed
  /\ PredictedRecords /= {}
  /\ BurstRecords /= {}
  /\ winnerCells /= {}
  /\ winnerCells /= activeCells

\* C2: two layers with the same parameters and seed, driven by the same
\* calls, are in the same state after every call, whatever the orders in
\* which each of them iterates its unordered sets.
C2_Determinism == twin = Layer

\* A learning compute() that adapted a segment of two synapses, destroyed a
\* synapse and drew from the generator.
C2_Witness ==
  /\ Computed
  /\ call.learn
  /\ call.count >= 3
  /\ twin = Layer
  /\ \E s \in 1 .. Len(connections.synapses) :
       Len(connections.synapses[s]) >= 2

----------------------------------------------------------------------------
(* Serialization: write, read and __eq__ *)

\* The layer as the object self, configuration fields included.
Self ==
  [columnDimensions |-> cfg.columnDimensions,
   cellsPerColumn |-> cfg.cellsPerColumn,
   activationThreshold |-> cfg.activationThreshold,
   initialPermanence |-> cfg.initialPermanence,
   connectedPermanence |-> cfg.connectedPermanence,
   minThreshold |-> cfg.minThreshold,
   maxNewSynapseCount |-> cfg.maxNewSynapseCount,
   permanenceIncrement |-> cfg.permanenceIncrement,
   permanenceDecrement |-> cfg.permanenceDecrement,
   predictedSegmentDecrement |-> cfg.predictedSegmentDecrement,
   connections |-> connections,
   random |-> random,
   activeCells |-> [type |-> "set", items |-> sorted(activeCells)],
   activeSegments |-> activeSegments,
   winnerCells |-> [type |-> "set", items |-> sorted(winnerCells)],
   matchingSegments |-> [type |-> "list", items |-> matchingSegments]]

\* A set is held as [type |-> "set", items |-> its elements in ascending
\* order].  list(x): a list or a tuple keeps its order, a set is iterated in
\* order k.
list(x, k) ==
  [type |-> "list",
   items |-> IF x.type = "set" THEN NthPerm(x.items, k) ELSE x.items]

\* set(x) of a list.
set(x) == [type |-> "set", items |-> sorted(Range(x.items))]

\* Python's == on containers: a tuple, a list and a set are never equal to
\* one another.
pyEq(x, y) == x.type = y.type /\ x.items = y.items

\* Connections.write / Connections.read keep segments, synapses and
\* permanences; Random.write / Random.read keep the generator's state.
RECURSIVE synapsesWriteRead(_)
synapsesWriteRead(syns) ==
  IF syns = <<>> THEN <<>>
  ELSE <<[presynapticCell |-> Head(syns).presynapticCell,
          permanence |-> Head(syns).permanence]>>
         \o synapsesWriteRead(Tail(syns))

RECURSIVE segmentsWriteRead(_)
segmentsWriteRead(segs) ==
  IF segs = <<>> THEN <<>>
  ELSE <<synapsesWriteRead(Head(segs))>> \o segmentsWriteRead(Tail(segs))

connectionsWriteRead(conn) ==
  [cells |-> conn.cells, synapses |-> segmentsWriteRead(conn.synapses)]

abs(x) == IF x < 0 THEN -x ELSE x

\* Connections.__eq__: same segments per cell, same synapses per segment in
\* the same order, permanences within EPSILON.
connectionsEq(a, b) ==
  /\ a.cells = b.cells
  /\ Len(a.synapses) = Len(b.synapses)
  /\ \A s \in 1 .. Len(a.synapses) :
       /\ Len(a.synapses[s]) = Len(b.synapses[s])
       /\ \A i \in 1 .. Len(a.synapses[s]) :
            /\ a.synapses[s][i].presynapticCell = b.synapses[s][i].presynapticCell
            /\ abs(a.synapses[s][i].permanence - b.synapses[s][i].permanence)
                 <= EPSILON

\* write(proto): the proto object filled from self.
write(self, k) ==
  [columnDimensions |-> self.columnDimensions,
   cellsPerColumn |-> self.cellsPerColumn,
   activationThreshold |-> self.activationThreshold,
   initialPermanence |-> self.initialPermanence,
   connectedPermanence |-> self.connectedPermanence,
   minThreshold |-> self.minThreshold,
   maxNewSynapseCount |-> self.maxNewSynapseCount,
   permanenceIncrement |-> self.permanenceIncrement,
   permanenceDecrement |-> self.permanenceDecrement,
   predictedSegmentDecrement |-> self.predictedSegmentDecrement,
   connections |-> self.connections,
   random |-> self.random,
   activeCells |-> list(self.activeCells, k),
   activeSegments |-> list(self.activeSegments, k),
   winnerCells |-> list(self.winnerCells, k),
   matchingSegments |-> list(self.matchingSegments, k)]

\* read(proto): the layer built from a proto object.
read(proto) ==
  [columnDimensions |-> list(proto.columnDimensions, 0),
   cellsPerColumn |-> proto.cellsPerColumn,
   activationThreshold |-> proto.activationThreshold,
   initialPermanence |-> proto.initialPermanence,
   connectedPermanence |-> proto.connectedPermanence,
   minThreshold |-> proto.minThreshold,
   maxNewSynapseCount |-> proto.maxNewSynapseCount,
   permanenceIncrement |-> proto.permanenceIncrement,
   permanenceDecrement |-> proto.permanenceDecrement,
   predictedSegmentDecrement |-> proto.predictedSegmentDecrement,
   connections |-> connectionsWriteRead(proto.connections),
   random |-> proto.random,
   activeCells |-> set(proto.activeCells),
   activeSegments |-> list(proto.activeSegments, 0),
   winnerCells |-> set(proto.winnerCells),
   matchingSegments |-> list(proto.matchingSegments, 0)]

\* __eq__(self, other)
layerEq(self, other) ==
  /\ pyEq(self.columnDimensions, other.columnDimensions)
  /\ self.cellsPerColumn = other.cellsPerColumn
  /\ self.activationThreshold = other.activationThreshold
  /\ ~ (abs(self.initialPermanence - other.initialPermanence) > EPSILON)
  /\ ~ (abs(self.connectedPermanence - other.connectedPermanence) > EPSILON)
  /\ self.minThreshold = other.minThreshold
  /\ self.maxNewSynapseCount = other.maxNewSynapseCount
  /\ ~ (abs(self.permanenceIncrement - other.permanenceIncrement) > EPSILON)
  /\ ~ (abs(self.permanenceDecrement - other.permanenceDecrement) > EPSILON)
  /\ ~ (abs(self.predictedSegmentDecrement - other.predictedSegmentDecrement)
          > EPSILON)
  /\ connectionsEq(self.connections, other.connections)
  /\ pyEq(self.activeCells, other.activeCells)
  /\ pyEq(self.winnerCells, other.winnerCells)
  /\ pyEq(self.matchingSegments, other.matchingSegments)
  /\ pyEq(self.activeSegments, other.activeSegments)

\* Layers constructed with columnDimensions given as a tuple or as a list.
ConfigurationsAnyForm ==
  {[c EXCEPT !.columnDimensions.type = t] :
     c \in Configurations, t \in {"tuple", "list"}}

InitAnyForm == InitWith(ConfigurationsAnyForm)

SpecAnyForm == InitAnyForm /\ [][Next]_vars

\* C3: in every reachable state, read(write(L)) compares equal to L under
\* __eq__.
C3_RoundTrip == \A k \in Orders : layerEq(read(write(Self, k)), Self)

\* The round trip of the layers whose columnDimensions is a list and whose
\* activeSegments is a list (no reset() was the last call to set it).
C3_RoundTripOfLists ==
  (cfg.columnDimensions.type = "list" /\ activeSegments.type = "list")
    => C3_RoundTrip

----------------------------------------------------------------------------
\* Layers constructed with an initialPermanence of 0.0, 0.5 or 1.25 and a
\* connectedPermanence of 0.0 or 0.75: __init__ checks neither.
ConfigurationsAnyPermanence ==
  {[c EXCEPT !.initialPermanence = p, !.connectedPermanence = q] :
     c \in Configurations, p \in {0, 500000, 1250000}, q \in {0, 750000}}

InitAnyPermanence == InitWith(ConfigurationsAnyPermanence)

SpecAnyPermanence == InitAnyPermanence /\ [][Next]_vars

PermanencesOf(conn) ==
  UNION {{conn.synapses[s][i].permanence : i \in 1 .. Len(conn.synapses[s])} :
           s \in 1 .. Len(conn.synapses)}

\* C4: in every reachable state every stored synapse has a permanence p
\* with 0 <= p <= 1 and none has p < EPSILON.
C4_PermanenceBounds ==
  \A p \in PermanencesOf(connections) : 0 <= p /\ p <= PermOne /\ ~ (p < EPSILON)

----------------------------------------------------------------------------
\* C5: after every compute(), provided activationThreshold >= minThreshold,
\* every segment of activeSegments is also in matchingSegments.
C5_ActiveSegmentsMatching ==
  (Computed /\ cfg.activationThreshold >= cfg.minThreshold)
    => Range(activeSegments.items) \subseteq Range(matchingSegments)

\* The canonical key (column of owner, owner, handle), compared
\* lexicographically.
CanonicalLess(a, b) ==
  LET ca == cellForSegment(connections, a)
      cb == cellForSegment(connections, b)
  IN \/ columnOf(ca) < columnOf(cb)
     \/ columnOf(ca) = columnOf(cb) /\ ca < cb
     \/ columnOf(ca) = columnOf(cb) /\ ca = cb /\ a < b

StrictlySorted(segs) ==
  \A i \in 1 .. (Len(segs) - 1) : CanonicalLess(segs[i], segs[i + 1])

\* C6: after every compute(), activeSegments and matchingSegments are each
\* strictly increasing in the key (column of owner, owner, handle).
C6_SegmentsStrictlySorted ==
  Computed => /\ StrictlySorted(activeSegments.items)
              /\ StrictlySorted(matchingSegments)

\* A compute() that left two active segments, and three matching segments
\* whose creation order is not their canonical order.
C6_Witness ==
  /\ Computed
  /\ Len(activeSegments.items) >= 2
  /\ Len(matchingSegments) >= 3
  /\ \E i \in 1 .. (Len(matchingSegments) - 1) :
       matchingSegments[i] > matchingSegments[i + 1]

----------------------------------------------------------------------------
(* Claims that relate the state before a compute() to the state after it   *)
(* are properties of the step: unprimed variables are the layer at the     *)
(* start of the call, primed ones the layer when it has returned.          *)

\* The step is a compute() that returned.
ComputedStep == call'.op = "compute" /\ ~ call'.raised

CellsOfColumn(c) == {x \in 0 .. (numberOfCells - 1) : columnOf(x) = c}

\* The segments of column c in activeSegments / matchingSegments.
ActiveSegmentsOfColumn(c) ==
  {s \in Range(activeSegments.items) : columnOf(cellForSegment(connections, s)) = c}

MatchingSegmentsOfColumn(c) ==
  {s \in Range(matchingSegments) : columnOf(cellForSegment(connections, s)) = c}

\* The number of synapses of segment s whose presynaptic cell is active.
Overlap(s) ==
  Cardinality({i \in 1 .. Len(connections.synapses[s]) :
                 connections.synapses[s][i].presynapticCell \in activeCells})

\* The matching segment of column c of largest overlap, the latest in
\* matchingSegments among those.
BestMatchingOfColumn(c) ==
  LET P == {i \in 1 .. Len(matchingSegments) :
              columnOf(cellForSegment(connections, matchingSegments[i])) = c}
      b == CHOOSE i \in P :
             \A j \in P :
               \/ Overlap(matchingSegments[j]) < Overlap(matchingSegments[i])
               \/ /\ Overlap(matchingSegments[j]) = Overlap(matchingSegments[i])
                  /\ j <= i
  IN matchingSegments[b]

\* C7: a column of activeColumns with a segment in activeSegments at the
\* start of compute() has, afterwards, exactly the owners of its active
\* segments as active cells and exactly the same cells as winner cells.
C7_PredictedActivation ==
  [][ComputedStep =>
        \A c \in call'.activeColumns :
          ActiveSegmentsOfColumn(c) /= {} =>
            LET owners == {cellForSegment(connections, s) :
                             s \in ActiveSegmentsOfColumn(c)}
            IN /\ activeCells' \cap CellsOfColumn(c) = owners
               /\ winnerCells' \cap CellsOfColumn(c) = owners]_vars

\* A compute() that found an active column predicted: one of its cells is
\* active, the other is not.
C7_Witness ==
  /\ Computed
  /\ \E i \in PredictedRecords :
       LET c == call.excitedColumns[i].column
       IN /\ activeCells \cap CellsOfColumn(c) /= {}
          /\ CellsOfColumn(c) \ activeCells /= {}
          /\ winnerCells \cap CellsOfColumn(c) = activeCells \cap CellsOfColumn(c)

\* C8: a column of activeColumns with no segment in activeSegments at the
\* start of compute() has, afterwards, all its cells active and exactly one
\* winner cell, the owner of the best matching segment when it has one.
C8_Burst ==
  [][ComputedStep =>
        \A c \in call'.activeColumns :
          ActiveSegmentsOfColumn(c) = {} =>
            /\ CellsOfColumn(c) \subseteq activeCells'
            /\ Cardinality(winnerCells' \cap CellsOfColumn(c)) = 1
            /\ MatchingSegmentsOfColumn(c) /= {} =>
                 winnerCells' \cap CellsOfColumn(c)
                   = {cellForSegment(connections, BestMatchingOfColumn(c))}]_vars

\* A compute() that burst a column with a matching segment and a column
\* without one.
C8_Witness ==
  /\ Computed
  /\ BurstMatchingRecords /= {}
  /\ BurstNoMatchRecords /= {}
  /\ \A i \in BurstRecords :
       /\ CellsOfColumn(call.excitedColumns[i].column) \subseteq activeCells
       /\ Cardinality(winnerCells \cap CellsOfColumn(call.excitedColumns[i].column)) = 1

----------------------------------------------------------------------------
\* The segments created by the step, and those of them owned by column c.
NewSegments == (Len(connections.cells) + 1) .. Len(connections'.cells)

NewSegmentsOfColumn(c) ==
  {s \in NewSegments : columnOf(connections'.cells[s]) = c}

PresynapticCells(syns) == {syns[i].presynapticCell : i \in 1 .. Len(syns)}

\* syns are n synapses at initialPermanence, from n distinct cells of from.
FreshSynapses(syns, n, from) ==
  /\ Len(syns) = n
  /\ \A i \in 1 .. Len(syns) :
       /\ syns[i].permanence = cfg.initialPermanence
       /\ syns[i].presynapticCell \in from
  /\ Cardinality(PresynapticCells(syns)) = n

\* Layers constructed with a maxNewSynapseCount of 0 or 2.
ConfigurationsAnyGrowth ==
  {[c EXCEPT !.maxNewSynapseCount = n] : c \in Configurations, n \in {0, 2}}

InitAnyGrowth == InitWith(ConfigurationsAnyGrowth)

SpecAnyGrowth == InitAnyGrowth /\ [][Next]_vars

\* What a compute() that bursts column c, without active or matching
\* segment, creates when it is to create: exactly one segment, on the
\* column's winner cell, holding min(maxNewSynapseCount, |prevWinnerCells|)
\* synapses at initialPermanence from distinct cells of prevWinnerCells.
CreatesOneSegment(c) ==
  /\ Cardinality(NewSegmentsOfColumn(c)) = 1
  /\ \A s \in NewSegmentsOfColumn(c) :
       /\ connections'.cells[s] \in winnerCells'
       /\ FreshSynapses(connections'.synapses[s],
                        Min2(cfg.maxNewSynapseCount, Cardinality(winnerCells)),
                        winnerCells)

\* C9 as stated: for an active column with no active and no matching
\* segment, a learning compute() with prevWinnerCells nonempty creates
\* exactly one segment as above; with learn false or prevWinnerCells empty
\* it creates no segment for that column.
C9_BurstWithoutMatchingAnyCount ==
  [][ComputedStep =>
        \A c \in call'.activeColumns :
          (ActiveSegmentsOfColumn(c) = {} /\ MatchingSegmentsOfColumn(c) = {}) =>
            IF call'.learn /\ winnerCells /= {}
            THEN CreatesOneSegment(c)
            ELSE NewSegmentsOfColumn(c) = {}]_vars

\* C9 as amended: the segment is created when, besides, maxNewSynapseCount
\* is at least 1; with learn false, prevWinnerCells empty or
\* maxNewSynapseCount below 1 no segment is created for that column.
C9_BurstWithoutMatching ==
  [][ComputedStep =>
        \A c \in call'.activeColumns :
          (ActiveSegmentsOfColumn(c) = {} /\ MatchingSegmentsOfColumn(c) = {}) =>
            IF call'.learn /\ winnerCells /= {} /\ cfg.maxNewSynapseCount >= 1
            THEN CreatesOneSegment(c)
            ELSE NewSegmentsOfColumn(c) = {}]_vars

\* A learning compute() with two previous winner cells that burst a column
\* without matching segment: the newest segment is on the column's winner
\* and holds two synapses.
C9_Witness ==
  /\ Computed
  /\ call.learn
  /\ cfg.maxNewSynapseCount >= 1
  /\ Len(call.prevWinnerCells) >= 2
  /\ \E i \in BurstNoMatchRecords :
       LET s == Len(connections.cells)
       IN /\ s >= 1
          /\ columnOf(connections.cells[s]) = call.excitedColumns[i].column
          /\ connections.cells[s] \in winnerCells
          /\ Len(connections.synapses[s]) = 2
          /\ PresynapticCells(connections.synapses[s])
               \subseteq Range(call.prevWinnerCells)

\* The synapses adaptSegment leaves of syns: each permanence raised by inc
\* when the presynaptic cell is in active, lowered by dec otherwise, clamped
\* to [0, 1]; the synapses that end below EPSILON are gone.
RECURSIVE Adapted(_, _, _, _)
Adapted(syns, active, inc, dec) ==
  IF syns = <<>> THEN <<>>
  ELSE LET old == Head(syns)
           new == Max2(0, Min2(PermOne,
                    IF old.presynapticCell \in active
                    THEN old.permanence + inc
                    ELSE old.permanence - dec))
       IN (IF new >= EPSILON
           THEN <<[presynapticCell |-> old.presynapticCell,
                   permanence |-> new]>>
           ELSE <<>>)
            \o Adapted(Tail(syns), active, inc, dec)

\* C10: for an active column with no active segment and a matching one, a
\* learning compute() adapts the best matching segment and then gives it
\* min(max(0, maxNewSynapseCount - overlap), |C|) new synapses at
\* initialPermanence, C being prevWinnerCells without the cells already
\* presynaptic to it; no other segment of the column is modified.
C10_BurstWithMatching ==
  [][(ComputedStep /\ call'.learn) =>
        \A c \in call'.activeColumns :
          (ActiveSegmentsOfColumn(c) = {} /\ MatchingSegmentsOfColumn(c) /= {}) =>
            LET best == BestMatchingOfColumn(c)
                old == connections.synapses[best]
                new == connections'.synapses[best]
                kept == Adapted(old, activeCells, cfg.permanenceIncrement,
                                cfg.permanenceDecrement)
                C == winnerCells \ PresynapticCells(kept)
                n == Min2(Max2(0, cfg.maxNewSynapseCount - Overlap(best)),
                          Cardinality(C))
            IN /\ Len(new) = Len(kept) + n
               /\ SubSeq(new, 1, Len(kept)) = kept
               /\ FreshSynapses(SubSeq(new, Len(kept) + 1, Len(new)), n, C)
               /\ \A s \in 1 .. Len(connections.cells) :
                    (columnOf(connections.cells[s]) = c /\ s /= best) =>
                      connections'.synapses[s] = connections.synapses[s]]_vars

\* A learning compute() that burst a column with a matching segment, adapted
\* it and grew one synapse on it: the segment holds a synapse raised above
\* initialPermanence and a later one at initialPermanence.
C10_Witness ==
  /\ Computed
  /\ call.learn
  /\ call.prevWinnerCells /= <<>>
  /\ \E i \in BurstMatchingRecords :
       \E s \in 1 .. Len(connections.cells) :
         LET syns == connections.synapses[s]
         IN /\ columnOf(connections.cells[s]) = call.excitedColumns[i].column
            /\ connections.cells[s] \in winnerCells
            /\ Len(syns) = 2
            /\ syns[1].permanence = cfg.initialPermanence + cfg.permanenceIncrement
            /\ syns[2].permanence = cfg.initialPermanence
            /\ syns[2].presynapticCell \in Range(call.prevWinnerCells)

----------------------------------------------------------------------------
\* The synapses punishment leaves of syns: a synapse whose presynaptic cell
\* is in active loses dec of permanence, clamped at 0, and is gone when the
\* result is below EPSILON; every other synapse is as it was.
RECURSIVE Punished(_, _, _)
Punished(syns, active, dec) ==
  IF syns = <<>> THEN <<>>
  ELSE LET old == Head(syns)
           new == Max2(0, old.permanence - dec)
       IN (IF old.presynapticCell \notin active THEN <<old>>
           ELSE IF new < EPSILON THEN <<>>
           ELSE <<[presynapticCell |-> old.presynapticCell,
                   permanence |-> new]>>)
            \o Punished(Tail(syns), active, dec)

\* The segments that exist at the start of the step and whose column is not
\* in the step's activeColumns.
SegmentsOfInactiveColumns ==
  {s \in 1 .. Len(connections.cells) :
     columnOf(connections.cells[s]) \notin call'.activeColumns}

\* C11: a learning compute() with predictedSegmentDecrement > 0 leaves, of
\* every segment of matchingSegments whose column is not in activeColumns,
\* the synapses punished as above; with learn false or
\* predictedSegmentDecrement = 0 it modifies no segment of a column that is
\* not in activeColumns.
C11_Punishment ==
  [][ComputedStep =>
        IF call'.learn /\ cfg.predictedSegmentDecrement > 0
        THEN \A s \in SegmentsOfInactiveColumns \cap Range(matchingSegments) :
               connections'.synapses[s]
                 = Punished(connections.synapses[s], activeCells,
                            cfg.predictedSegmentDecrement)
        ELSE \A s \in SegmentsOfInactiveColumns :
               connections'.synapses[s] = connections.synapses[s]]_vars

----------------------------------------------------------------------------
(* Accessors *)

getCellIndex(cell) == cell

\* The list comprehension walks the set in its iteration order (k).
RECURSIVE cellIndicesLoop(_, _)
cellIndicesLoop(cells, i) ==
  IF i > Len(cells) THEN <<>>
  ELSE <<getCellIndex(cells[i])>> \o cellIndicesLoop(cells, i + 1)

getCellIndices(cells, k) == cellIndicesLoop(iter(cells, k), 1)

getActiveCells(self, k) == getCellIndices(self.activeCells, k)

getWinnerCells(self, k) == getCellIndices(self.winnerCells, k)

\* activeSegments is a list, or the empty set after reset(); a set is
\* walked in its iteration order (k).
RECURSIVE predictiveLoop(_, _, _, _)
predictiveLoop(conn, segs, i, predictiveCells) ==
  IF i > Len(segs) THEN predictiveCells
  ELSE predictiveLoop(conn, segs, i + 1, predictiveCells \cup {cellForSegment(conn, segs[i])})

getPredictiveCells(self, k) ==
  sorted(predictiveLoop(self.connections, IF self.activeSegments.type = "set" THEN NthPerm(self.activeSegments.items, k) ELSE self.activeSegments.items, 1, {}))

\* C12: in every reachable state and for every iteration order of the
\* underlying sets, getActiveCells(), getWinnerCells() and
\* getPredictiveCells() return the ascending lists of activeCells, of
\* winnerCells, and of the cells owning the segments of activeSegments.
C12_AccessorsSorted ==
  \A k \in Orders :
    /\ getActiveCells(Layer, k) = sorted(activeCells)
    /\ getWinnerCells(Layer, k) = sorted(winnerCells)
    /\ getPredictiveCells(Layer, k)
         = sorted({cellForSegment(connections, s) : s \in Range(activeSegments.items)})

\* The part of C12 that getPredictiveCells() satisfies: it sorts its result.
C12_PredictiveCellsSorted ==
  \A k \in Orders :
    getPredictiveCells(Layer, k)
      = sorted({cellForSegment(connections, s) : s \in Range(activeSegments.items)})

----------------------------------------------------------------------------
\* C13: reset(), in any reachable state, leaves activeCells, winnerCells
\* and activeSegments empty, so that the three accessors return empty lists,
\* and changes neither the connections, nor the random generator's state,
\* nor a configuration field.
C13_Reset ==
  [][call'.op = "reset" =>
        /\ activeCells' = {}
        /\ winnerCells' = {}
        /\ activeSegments'.items = <<>>
        /\ \A k \in Orders :
             /\ getActiveCells(Layer, k)' = <<>>
             /\ getWinnerCells(Layer, k)' = <<>>
             /\ getPredictiveCells(Layer, k)' = <<>>
        /\ connections' = connections
        /\ random' = random
        /\ cfg' = cfg]_vars

\* reset() has acted on a layer that had learnt segments and whose last
\* compute() left winner cells and matching segments.
C13_Witness ==
  /\ call.op = "reset"
  /\ connections.cells /= <<>>
  /\ matchingSegments /= <<>>
  /\ winnerCells = {}

----------------------------------------------------------------------------
\* Every handle of activeSegments and matchingSegments is a segment of the
\* connections.
HandlesValid ==
  Range(activeSegments.items) \cup Range(matchingSegments)
    \subseteq 1 .. Len(connections.cells)

\* C14: in every reachable state, right after reset() included, a compute()
\* raises only when createSegment or createSynapse is at its limit (the
\* best matching segment of a nonempty range is never None, the tie set of
\* leastUsedCell never empty, growSynapses never out of its candidates),
\* and the handles the walk reads are valid.
C14_ComputeCompletes ==
  /\ (call.op = "compute" /\ call.raised => call.error = "capacity")
  /\ HandlesValid

\* A compute() returned whose walk burst a column with matching segments
\* while prevActiveCells was empty (the lists were left by an earlier
\* call), and another column burst without matching segment.
C14_Witness ==
  /\ Computed
  /\ call.prevActiveCells = <<>>
  /\ BurstMatchingRecords /= {}
  /\ BurstNoMatchRecords /= {}

----------------------------------------------------------------------------
\* The segments holding two synapses with the same presynaptic cell.
SegmentsWithDuplicates ==
  {s \in 1 .. Len(connections.synapses) :
     \E i, j \in 1 .. Len(connections.synapses[s]) :
       /\ i < j
       /\ connections.synapses[s][i].presynapticCell
            = connections.synapses[s][j].presynapticCell}

\* C15: in every reachable state no segment holds two synapses with the
\* same presynaptic cell.
C15_NoDuplicateSynapses == SegmentsWithDuplicates = {}

\* growSynapses has added a synapse to a segment whose older synapse comes
\* from a cell that was a candidate again: the last compute() learnt on the
\* best matching segment of a bursting column, and that segment holds an
\* adapted synapse and a new one, both from cells of prevWinnerCells.
C15_Witness ==
  /\ Computed
  /\ call.learn
  /\ \E i \in BurstMatchingRecords :
       \E s \in 1 .. Len(connections.cells) :
         /\ columnOf(connections.cells[s]) = call.excitedColumns[i].column
         /\ Len(connections.synapses[s]) = 2
         /\ connections.synapses[s][1].permanence /= cfg.initialPermanence
         /\ connections.synapses[s][2].permanence = cfg.initialPermanence
         /\ {connections.synapses[s][1].presynapticCell,
             connections.synapses[s][2].presynapticCell}
              = Range(call.prevWinnerCells)

----------------------------------------------------------------------------
(* excitedColumnsGenerator on its own: the walk over any sorted unique     *)
(* activeColumns and any two column-sorted lists of segments.              *)

MaxWalkSegments == 3

ConfigurationsWalk ==
  [columnDimensions : {[type |-> "tuple", items |-> <<3>>]},
   cellsPerColumn : {2},
   activationThreshold : {2},
   initialPermanence : {500000},
   connectedPermanence : {750000},
   minThreshold : {1},
   maxNewSynapseCount : {2},
   permanenceIncrement : {250000},
   permanenceDecrement : {250000},
   predictedSegmentDecrement : {250000},
   maxSegmentsPerCell : {MaxWalkSegments},
   maxSynapsesPerSegment : {2},
   seed : {0}]

\* The lists of at most n distinct elements of S.
RECURSIVE ListsOver(_, _)
ListsOver(S, n) ==
  IF n = 0 THEN {<<>>}
  ELSE LET shorter == ListsOver(S, n - 1)
       IN shorter \cup {Append(p[1], p[2]) :
                          p \in {q \in shorter \X S : q[2] \notin Range(q[1])}}

\* The connections after createSegment on each cell of owners, in order.
RECURSIVE ConnectionsOf(_)
ConnectionsOf(owners) ==
  IF owners = <<>> THEN EmptyConnections
  ELSE createSegment(ConnectionsOf(SubSeq(owners, 1, Len(owners) - 1)),
                     owners[Len(owners)]).connections

ColumnSorted(conn, segs, cellsPerColumn) ==
  \A i, j \in 1 .. Len(segs) :
    i < j => columnForSegment(conn, segs[i], cellsPerColumn)
               <= columnForSegment(conn, segs[j], cellsPerColumn)

\* One cell of each column (the walk reads only the column of a segment's
\* cell), not always the column's first.
WalkOwners ==
  {c * cfg.cellsPerColumn + (c % cfg.cellsPerColumn) :
     c \in 0 .. (numberOfColumns - 1)}

\* The inputs of the walk: segments on cells of any columns, in any order
\* of creation, and two column-sorted lists of them.
InitWalk ==
  /\ cfg \in ConfigurationsWalk
  /\ activeCells = {}
  /\ winnerCells = {}
  /\ \E n \in 0 .. MaxWalkSegments :
       \E owners \in [1 .. n -> WalkOwners] :
         connections = ConnectionsOf(owners)
  /\ \E activeSegs \in ListsOver(1 .. Len(connections.cells), MaxWalkSegments) :
       /\ ColumnSorted(connections, activeSegs, cfg.cellsPerColumn)
       /\ activeSegments = [type |-> "list", items |-> activeSegs]
  /\ matchingSegments \in ListsOver(1 .. Len(connections.cells), MaxWalkSegments)
  /\ ColumnSorted(connections, matchingSegments, cfg.cellsPerColumn)
  /\ random = cfg.seed
  /\ call = [op |-> "init", raised |-> FALSE, error |-> "", count |-> 0,
             activeColumns |-> {},
             learn |-> FALSE, prevActiveCells |-> <<>>, prevWinnerCells |-> <<>>,
             excitedColumns |-> <<>>]
  /\ twin = Layer

\* The generator run to its end, once, on sorted(activeColumns) and the two
\* lists.
Walk ==
  \E activeColumns \in SUBSET (0 .. (numberOfColumns - 1)) :
    /\ call.op = "init"
    /\ call' = [op |-> "walk", raised |-> FALSE, error |-> "", count |-> call.count + 1,
                activeColumns |-> activeColumns,
                learn |-> FALSE, prevActiveCells |-> <<>>, prevWinnerCells |-> <<>>,
                excitedColumns |->
                  excitedColumnsGenerator(sorted(activeColumns),
                    activeSegments.items, matchingSegments,
                    cfg.cellsPerColumn, connections)]
    /\ UNCHANGED <<cfg, activeCells, winnerCells, activeSegments,
                   matchingSegments, connections, random, twin>>

SpecWalk == InitWalk /\ [][Walk]_vars

\* The last call was a run of the generator.
Walked == call.op = "walk"

\* The 0-based indices of segs whose segment is owned by a cell of column c.
IndicesOfColumn(segs, c) ==
  {j \in 0 .. (Len(segs) - 1) :
     columnForSegment(connections, segs[j + 1], cfg.cellsPerColumn) = c}

\* The half-open ranges [begin(r), end(r)) of the records partition the
\* indices of segs in order, without gap or overlap.
Partitions(records, segs, begin(_), end(_)) ==
  /\ \A i \in 1 .. Len(records) : begin(records[i]) <= end(records[i])
  /\ records /= <<>> => begin(records[1]) = 0
  /\ \A i \in 1 .. (Len(records) - 1) : begin(records[i + 1]) = end(records[i])
  /\ records /= <<>> => end(records[Len(records)]) = Len(segs)
  /\ records = <<>> => segs = <<>>

ActiveBegin(r) == r.activeSegmentsBegin

ActiveEnd(r) == r.activeSegmentsEnd

MatchingBegin(r) == r.matchingSegmentsBegin

MatchingEnd(r) == r.matchingSegmentsEnd

\* C16: after a walk over sorted unique activeColumns and column-sorted
\* lists, the records' ranges partition the indices of activeSegments and
\* of matchingSegments without gap or overlap, each record's ranges hold
\* exactly the indices of the segments of the record's column, and every
\* active column has exactly one record.
C16_WalkPartition ==
  Walked =>
    /\ Partitions(call.excitedColumns, activeSegments.items, ActiveBegin, ActiveEnd)
    /\ Partitions(call.excitedColumns, matchingSegments, MatchingBegin, MatchingEnd)
    /\ \A i \in 1 .. Len(call.excitedColumns) :
         /\ ActiveBegin(call.excitedColumns[i]) .. (ActiveEnd(call.excitedColumns[i]) - 1)
              = IndicesOfColumn(activeSegments.items, call.excitedColumns[i].column)
         /\ MatchingBegin(call.excitedColumns[i]) .. (MatchingEnd(call.excitedColumns[i]) - 1)
              = IndicesOfColumn(matchingSegments, call.excitedColumns[i].column)
    /\ \A c \in call.activeColumns :
         Cardinality({i \in 1 .. Len(call.excitedColumns) :
                        /\ call.excitedColumns[i].column = c
                        /\ call.excitedColumns[i].isActiveColumn}) = 1

\* A walk whose lists hold two segments of one column each, over three
\* records, one of them for an active column without segment.
C16_Witness ==
  /\ Walked
  /\ Len(call.excitedColumns) = 3
  /\ \E i \in 1 .. 3 :
       /\ ActiveEnd(call.excitedColumns[i]) - ActiveBegin(call.excitedColumns[i]) = 2
       /\ MatchingEnd(call.excitedColumns[i]) - MatchingBegin(call.excitedColumns[i]) = 2
  /\ \E i \in 1 .. 3 :
       /\ call.excitedColumns[i].isActiveColumn
       /\ ActiveEnd(call.excitedColumns[i]) = ActiveBegin(call.excitedColumns[i])
       /\ MatchingEnd(call.excitedColumns[i]) = MatchingBegin(call.excitedColumns[i])

----------------------------------------------------------------------------
\* The columns of the walk's inputs: the active columns and the columns of
\* the segments of both lists.
ColumnsOfWalk ==
  call.activeColumns
    \cup {columnForSegment(connections, activeSegments.items[j], cfg.cellsPerColumn) :
            j \in 1 .. Len(activeSegments.items)}
    \cup {columnForSegment(connections, matchingSegments[j], cfg.cellsPerColumn) :
            j \in 1 .. Len(matchingSegments)}

\* C17: the walk ends having yielded exactly one record per column of its
\* inputs, in strictly increasing order of column; a record's
\* isActiveColumn is true exactly when its column is in activeColumns, and
\* a record with isActiveColumn false has an active or a matching segment
\* in its ranges.
C17_WalkClassification ==
  Walked =>
    /\ {call.excitedColumns[i].column : i \in 1 .. Len(call.excitedColumns)}
         = ColumnsOfWalk
    /\ \A i \in 1 .. (Len(call.excitedColumns) - 1) :
         call.excitedColumns[i].column < call.excitedColumns[i + 1].column
    /\ \A i \in 1 .. Len(call.excitedColumns) :
         /\ call.excitedColumns[i].isActiveColumn
              <=> call.excitedColumns[i].column \in call.activeColumns
         /\ ~ call.excitedColumns[i].isActiveColumn =>
              \/ ActiveBegin(call.excitedColumns[i]) < ActiveEnd(call.excitedColumns[i])
              \/ MatchingBegin(call.excitedColumns[i]) < MatchingEnd(call.excitedColumns[i])

\* A walk that yielded a record of each kind: an active column without
\* segment, an active column with segments, and a column that is not
\* active and has matching segments only.
C17_Witness ==
  /\ Walked
  /\ \E i, j, l \in 1 .. Len(call.excitedColumns) :
       /\ call.excitedColumns[i].isActiveColumn
       /\ ActiveBegin(call.excitedColumns[i]) = ActiveEnd(call.excitedColumns[i])
       /\ MatchingBegin(call.excitedColumns[i]) = MatchingEnd(call.excitedColumns[i])
       /\ call.excitedColumns[j].isActiveColumn
       /\ ActiveBegin(call.excitedColumns[j]) < ActiveEnd(call.excitedColumns[j])
       /\ ~ call.excitedColumns[l].isActiveColumn
       /\ ActiveBegin(call.excitedColumns[l]) = ActiveEnd(call.excitedColumns[l])
       /\ MatchingBegin(call.excitedColumns[l]) < MatchingEnd(call.excitedColumns[l])

----------------------------------------------------------------------------
\* The number of synapses of segment s whose presynaptic cell is in P,
\* whatever their permanence.
OverlapWith(s, P) ==
  Cardinality({i \in 1 .. Len(connections.synapses[s]) :
                 connections.synapses[s][i].presynapticCell \in P})

\* The 0-based index of [begin, end) whose segment of matchingSegments has
\* the largest overlap with P, the latest among those of that overlap.
LatestBest(begin, end, P) ==
  CHOOSE i \in begin .. (end - 1) :
    \A j \in begin .. (end - 1) :
      \/ OverlapWith(matchingSegments[j + 1], P) < OverlapWith(matchingSegments[i + 1], P)
      \/ /\ OverlapWith(matchingSegments[j + 1], P) = OverlapWith(matchingSegments[i + 1], P)
         /\ j <= i

\* A record of the walk with the matching range [begin, end).
MatchingRange(begin, end) ==
  [matchingSegmentsBegin |-> begin, matchingSegmentsEnd |-> end]

\* best is the segment at 0-based index i of matchingSegments, with its
\* overlap with P.
BestIs(best, i, P) ==
  /\ best.bestSegment = matchingSegments[i + 1]
  /\ best.bestNumActiveSynapses = OverlapWith(matchingSegments[i + 1], P)

\* C18: in every reachable state, for every nonempty range of
\* matchingSegments and every prevActiveCells, bestMatchingSegment returns
\* the segment of the range with the most synapses from cells of
\* prevActiveCells, the latest of the range among those with the most, and
\* that number.
C18_BestMatchingSegment ==
  [](\A end \in 1 .. Len(matchingSegments) :
       \A begin \in 0 .. (end - 1) :
         \A P \in SUBSET (0 .. (numberOfCells - 1)) :
           BestIs(bestMatchingSegment(Layer, MatchingRange(begin, end), sorted(P)),
                  LatestBest(begin, end, P), P))

\* A state with two matching segments where, for one prevActiveCells, the
\* earlier has the larger overlap and is returned, and for another both
\* have the same positive overlap and the later is returned, one of the
\* counted synapses being below connectedPermanence.
C18_Witness ==
  /\ Len(matchingSegments) >= 2
  /\ \E P \in SUBSET (0 .. (numberOfCells - 1)) :
       /\ OverlapWith(matchingSegments[1], P) > OverlapWith(matchingSegments[2], P)
       /\ bestMatchingSegment(Layer, MatchingRange(0, 2), sorted(P)).bestSegment
            = matchingSegments[1]
  /\ \E P \in SUBSET (0 .. (numberOfCells - 1)) :
       /\ OverlapWith(matchingSegments[1], P) = OverlapWith(matchingSegments[2], P)
       /\ OverlapWith(matchingSegments[2], P) > 0
       /\ bestMatchingSegment(Layer, MatchingRange(0, 2), sorted(P)).bestSegment
            = matchingSegments[2]
       /\ \E i \in 1 .. Len(connections.synapses[matchingSegments[2]]) :
            /\ connections.synapses[matchingSegments[2]][i].presynapticCell \in P
            /\ connections.synapses[matchingSegments[2]][i].permanence
                 < cfg.connectedPermanence

----------------------------------------------------------------------------
\* The number of segments cell x owns.
SegmentsOwned(x) ==
  Cardinality({s \in 1 .. Len(connections.cells) : connections.cells[s] = x})

\* The cells of column c that own the fewest segments.
Ties(c) ==
  {x \in CellsOfColumn(c) :
     \A y \in CellsOfColumn(c) : SegmentsOwned(x) <= SegmentsOwned(y)}

\* The states of the random generator.
RandomStates == 0 .. 15

\* leastUsedCell on the cells of column c, scanned in order k, makes one
\* draw below the number of tied cells and returns the tied cell of that
\* rank in ascending order.
DrawsAmongTies(least, draw, c) ==
  /\ least.random = draw.random
  /\ least.cell = sorted(Ties(c))[draw.value + 1]

\* C19: in every reachable state, leastUsedCell on a column's cells makes
\* one draw below the number of tied cells (the cells of the column owning
\* the fewest segments) and returns the tied cell of that rank in ascending
\* order, whatever the order the cells are scanned in, and every tied cell
\* is returned for some state of the generator; and the winner cell
\* compute() gives a bursting column without matching segment owned no
\* more segments than any other cell of the column when the call started.
C19_LeastUsedCell ==
  /\ [](\A c \in 0 .. (numberOfColumns - 1) :
          /\ \A k \in Orders :
               DrawsAmongTies(leastUsedCell(Layer, cellsForColumn(c), k),
                              getUInt32(random, Cardinality(Ties(c))), c)
          /\ {leastUsedCell([Layer EXCEPT !.random = r], cellsForColumn(c), 0).cell :
                r \in RandomStates} = Ties(c))
  /\ [][ComputedStep =>
          \A i \in 1 .. Len(call'.excitedColumns) :
            /\ call'.excitedColumns[i].isActiveColumn
            /\ ActiveBegin(call'.excitedColumns[i]) = ActiveEnd(call'.excitedColumns[i])
            /\ MatchingBegin(call'.excitedColumns[i]) = MatchingEnd(call'.excitedColumns[i])
            => winnerCells' \cap CellsOfColumn(call'.excitedColumns[i].column)
                 \subseteq Ties(call'.excitedColumns[i].column)]_vars

\* A compute() without learning burst a column without matching segment
\* one of whose cells owns a segment: the winner is the cell that owns none.
C19_Witness ==
  /\ Computed
  /\ ~ call.learn
  /\ \E i \in BurstNoMatchRecords :
       \E x, y \in CellsOfColumn(call.excitedColumns[i].column) :
         /\ SegmentsOwned(x) = 1
         /\ SegmentsOwned(y) = 0
         /\ y \in winnerCells
         /\ x \notin winnerCells

----------------------------------------------------------------------------
\* The increments and decrements compute() calls adaptSegment with: those of
\* learning on a segment, and those of punishment.
AdaptDeltas ==
  {<<cfg.permanenceIncrement, cfg.permanenceDecrement>>,
   <<- cfg.predictedSegmentDecrement, 0>>}

\* adaptSegment on segment s with prevActiveCells P and deltas d, the
\* snapshot being walked in order k, leaves of s the synapses Adapted
\* describes, and leaves every other segment, the owners of all segments
\* and the rest of the layer as they were.
AdaptsOnly(s, P, d, k) ==
  adaptSegment(Layer, sorted(P), d[1], d[2], s, k)
    = [Layer EXCEPT !.connections.synapses[s] = Adapted(connections.synapses[s], P, d[1], d[2])]

\* C20: in every reachable state, adaptSegment on any segment, with any
\* prevActiveCells, gives each synapse the segment holds at the start the
\* permanence clamp(p + increment) if its presynaptic cell is in
\* prevActiveCells and clamp(p - decrement) otherwise, destroys it if that
\* is below EPSILON and stores it otherwise; the synapses of the other
\* segments are unchanged and the segment remains, even without synapse.
C20_AdaptSegment ==
  [](\A s \in 1 .. Len(connections.cells) :
       \A P \in SUBSET (0 .. (numberOfCells - 1)) :
         \A d \in AdaptDeltas :
           \A k \in Orders : AdaptsOnly(s, P, d, k))

\* adaptSegment has removed the last synapse of a segment, and the segment
\* is still there; another segment holds a synapse raised to 1.
C20_Witness ==
  /\ Computed
  /\ \E s \in 1 .. Len(connections.cells) : connections.synapses[s] = <<>>
  /\ \E s \in 1 .. Len(connections.cells) :
       \E i \in 1 .. Len(connections.synapses[s]) :
         connections.synapses[s][i].permanence = PermOne

----------------------------------------------------------------------------
\* The layer with the same connections, random generator and configuration
\* and no cell, no segment active or matching: the start of a sequence.
StartOfSequence ==
  [Layer EXCEPT !.activeCells = {}, !.winnerCells = {},
                !.activeSegments = [type |-> "list", items |-> <<>>],
                !.matchingSegments = <<>>,
                !.raised = FALSE, !.error = ""]

\* Layer a and layer b agree on what compute() leaves.
SameOutcome(a, b) ==
  /\ a.activeCells = b.activeCells
  /\ a.winnerCells = b.winnerCells
  /\ a.activeSegments.items = b.activeSegments.items
  /\ a.matchingSegments = b.matchingSegments
  /\ a.random = b.random
  /\ a.connections = b.connections

\* C21: a compute() that follows reset() leaves the cells, the segments,
\* the random generator and the connections that the same compute() leaves
\* of the layer at the start of a sequence.
C21_ResetStartsSequence ==
  [][call.op = "reset" /\ call'.op = "compute" =>
        \E k \in Orders :
          SameOutcome(Layer', compute(StartOfSequence, call'.activeColumns, call'.learn, k))]_vars

----------------------------------------------------------------------------
\* C22: compute() with learn false, in any reachable state, leaves the
\* connections as they were (no segment or synapse created or destroyed,
\* no permanence changed), and the configuration too.
C22_InferenceKeepsConnections ==
  [][call'.op = "compute" /\ ~ call'.learn =>
        /\ connections' = connections
        /\ cfg' = cfg
        /\ ~ call'.raised]_vars

\* A compute() without learning burst a column while there were previous
\* winner cells, and walked a column that is not active and has a matching
\* segment with a synapse from a previously active cell: learning would
\* have grown synapses for the one and punished the other.
C22_Witness ==
  /\ Computed
  /\ ~ call.learn
  /\ \E i \in PunishRecords :
       /\ MatchingBegin(call.excitedColumns[i]) < MatchingEnd(call.excitedColumns[i])
       /\ \A s \in 1 .. Len(connections.cells) :
            columnOf(connections.cells[s]) = call.excitedColumns[i].column =>
              PresynapticCells(connections.synapses[s]) \cap Range(call.prevActiveCells) /= {}
  /\ \E i \in BurstRecords : call.prevWinnerCells /= <<>>

----------------------------------------------------------------------------
\* The columns holding a cell of cells.
ColumnsOf(cells) == {columnOf(x) : x \in cells}

\* C23: after every compute() the columns holding an active cell are
\* exactly the activeColumns of the call, and so are the columns holding a
\* winner cell.
C23_ActiveColumnsCovered ==
  Computed =>
    /\ ColumnsOf(activeCells) = call.activeColumns
    /\ ColumnsOf(winnerCells) = call.activeColumns

\* A compute() on both columns, one predicted and one bursting, that left
\* a cell of the predicted column neither active nor winner.
C23_Witness ==
  /\ Computed
  /\ call.activeColumns = {0, 1}
  /\ PredictedRecords /= {}
  /\ BurstRecords /= {}
  /\ activeCells /= 0 .. (numberOfCells - 1)

\* The synapses of segment s after the step that it did not have before: all
\* of them on a new segment, those from a presynaptic cell without synapse on
\* the segment before on an old one.
CreatedSynapses(s) ==
  {i \in 1 .. Len(connections'.synapses[s]) :
     \/ s \in NewSegments
     \/ connections'.synapses[s][i].presynapticCell
          \notin PresynapticCells(connections.synapses[s])}

\* No old synapse went away and came back: on every old segment the synapses
\* from cells it had before keep the order they had.
KeptInOrder(s) ==
  \A i, j \in 1 .. Len(connections'.synapses[s]) :
    i < j /\ j \notin CreatedSynapses(s) => i \notin CreatedSynapses(s)

\* C24: every synapse a compute() creates has permanence initialPermanence
\* and a presynaptic cell that was a winner cell when the call began; every
\* segment it creates is on a winner cell of the call and has a synapse; the
\* first compute() after construction or reset() creates neither; and no
\* compute() removes a segment or gives one another cell.
C24_Creation ==
  [][ComputedStep =>
        /\ \A s \in 1 .. Len(connections'.cells) :
             /\ s \notin NewSegments => KeptInOrder(s)
             /\ \A i \in CreatedSynapses(s) :
                  /\ connections'.synapses[s][i].permanence = cfg.initialPermanence
                  /\ connections'.synapses[s][i].presynapticCell \in winnerCells
        /\ \A s \in NewSegments :
             /\ connections'.cells[s] \in winnerCells'
             /\ connections'.synapses[s] /= <<>>
        /\ (call.op \in {"init", "reset"} =>
              /\ NewSegments = {}
              /\ \A s \in 1 .. Len(connections'.cells) : CreatedSynapses(s) = {})
        /\ Len(connections'.cells) >= Len(connections.cells)
        /\ SubSeq(connections'.cells, 1, Len(connections.cells)) = connections.cells]_vars

\* A learning compute() that burst two columns: one without matching segment,
\* which got the newest segment, on its winner cell and with synapses from
\* the previous winner cells only, and one with a matching segment, which
\* holds a synapse at initialPermanence from a previous winner cell.
C24_Witness ==
  /\ Computed
  /\ call.learn
  /\ call.prevWinnerCells /= <<>>
  /\ \E i \in BurstNoMatchRecords :
       LET s == Len(connections.cells)
       IN /\ s >= 2
          /\ columnOf(connections.cells[s]) = call.excitedColumns[i].column
          /\ connections.cells[s] \in winnerCells
          /\ FreshSynapses(connections.synapses[s],
                           Min2(cfg.maxNewSynapseCount, Len(call.prevWinnerCells)),
                           Range(call.prevWinnerCells))
  /\ \E i \in BurstMatchingRecords :
       \E s \in 1 .. Len(connections.cells) :
         /\ columnOf(connections.cells[s]) = call.excitedColumns[i].column
         /\ \E j \in 1 .. Len(connections.synapses[s]) :
              /\ connections.synapses[s][j].permanence = cfg.initialPermanence
              /\ connections.synapses[s][j].presynapticCell
                   \in Range(call.prevWinnerCells)

====
